---- MODULE Spec2Model ----
(***************************************************************************)
(* when-ts: a tick-driven rule engine (StateMachine) with a rewindable     *)
(* history of committed states (HistoryManager).                           *)
(*                                                                         *)
(* Machines are constructed without an input source (the configuration of  *)
(* the tests that exercise step, run, exit, rewind and limit) or with an   *)
(* input source that has one @input property.  JavaScript objects are      *)
(* functions from field names to values; an object reference that the code *)
(* keeps in two places (the exit state and a history record) is tracked by *)
(* exitRef.                                                                *)
(***************************************************************************)
EXTENDS Integers, Sequences, FiniteSets, TLC

\* ------------------------------------------------------------------ bounds
\* `value` counts up to MaxVal (the tests count to 5).
MaxVal == 2
\* `cycle` counts up to MaxCycle (the rewind test cycles 10 times).
MaxCycle == 1
\* step() is not entered once the tick counter reached MaxTick.
MaxTick == 4
\* The host assigns limits 0..MaxLimit (and Infinity).
MaxLimit == 2
\* Number of history operations (limit, rewind, clear, reset) the host performs.
MaxHostOps == 2
\* The input source's property takes the values 0..MaxInput.
MaxInput == 1

\* ------------------------------------------------------- JavaScript values
\* Number.POSITIVE_INFINITY: above every tick and every length of the model.
Infinity == 1000000

\* The JavaScript value `undefined`.
undefined == [undefined |-> TRUE]

\* Object.create(null)
Empty == [k \in {} |-> 0]

\* Object.assign(target, source)
ObjectAssign(target, source) ==
    [k \in DOMAIN target \cup DOMAIN source |->
        IF k \in DOMAIN source THEN source[k] ELSE target[k]]

Min(a, b) == IF a < b THEN a ELSE b

Max(a, b) == IF a > b THEN a ELSE b

\* What Array.prototype.splice(start, deleteCount) leaves in the array.
Splice(arr, start, deleteCount) ==
    LET len == Len(arr)
        s == IF start < 0 THEN Max(len + start, 0) ELSE Min(start, len)
        d == Max(0, Min(deleteCount, len - s))
    IN  SubSeq(arr, 1, s) \o SubSeq(arr, s + d + 1, len)

\* Where the object at (1-based) position i of the array is after
\* splice(start, deleteCount); 0 when it was removed (or i = 0).
SpliceRef(arr, start, deleteCount, i) ==
    LET len == Len(arr)
        s == IF start < 0 THEN Max(len + start, 0) ELSE Min(start, len)
        d == Max(0, Min(deleteCount, len - s))
    IN  IF i <= s THEN i
        ELSE IF i <= s + d THEN 0
        ELSE i - d

\* ------------------------------------------------------------------- state
VARIABLES
    _program,       \* StateMachine._program: the rules in evaluation order
    _initialState,  \* HistoryManager._initialState
    _records,       \* HistoryManager._records
    _tick,          \* HistoryManager._tick
    _nextState,     \* HistoryManager._nextState
    _maxHistory,    \* HistoryManager._maxHistory
    _exitState,     \* StateMachine._exitState
    _inputSource,   \* HistoryManager._inputSource: the source object, or undefined
    _inputMappings, \* HistoryManager._inputMappings
    _previousInputs,\* HistoryManager._previousInputs
    exitRef,        \* position in _records of the object _exitState refers to, else 0
    exitCalled,     \* history: exit() was invoked since construction / the last reset()
    pc,             \* "idle": the host is in control; "step": inside step()'s loop;
                    \* "run": at the head of run()'s while loop
    idx,            \* step(): position of the loop in _program
    fired,          \* step(): local `fired`
    currentTick,    \* step(): local `currentTick`
    forever,        \* run(): parameter `forever`
    inRun,          \* step() was called by run()
    change,         \* value returned by the last step()
    result,         \* value returned by the last run()
    hostOps,        \* number of history operations the host performed
    snapshot,       \* history: currentState when the step in progress (or last step) began
    log,            \* history: the rule evaluations of the step in progress (or last step)
    rewound,        \* history: the rewind an action performed in this step, or undefined
    exitSet,        \* history: [arg, state] of the last exit() call of this step, or undefined
    runLog,         \* history: [fired, exited, rewound] of the steps of the run in progress (or last run)
    committed,      \* history: every state committed so far, while `plain`
    plain,          \* history: no rewind took effect and limit was not assigned after the first step
    written,        \* history: the fields named by an update of a firing action or by the
                    \* mutate argument of a rewind or reset, since construction
    lastOp,         \* history: the operation that produced this state
    other,          \* the machine passed to recombine: [machine, program, initialState],
                    \* or undefined where no second machine exists
    child           \* the machine recombine returned: [self, machine, program,
                    \* initialState], or undefined before the call

vars == <<_program, _initialState, _records, _tick, _nextState, _maxHistory,
          _exitState, _inputSource, _inputMappings, _previousInputs, exitRef, exitCalled, pc, idx, fired, currentTick, forever,
          inRun, change, result, hostOps, snapshot, log, rewound, exitSet,
          runLog, committed, plain, written, lastOp, other, child>>

\* The machine's mutable objects as one value, for the operators below.
M == [records |-> _records, tick |-> _tick, nextState |-> _nextState,
      maxHistory |-> _maxHistory, exitState |-> _exitState, exitRef |-> exitRef,
      exitCalled |-> exitCalled, previousInputs |-> _previousInputs]

\* ------------------------------------------------------------ HistoryManager
\* get currentState
currentState(m) ==
    IF Len(m.records) >= 1 THEN m.records[Len(m.records)] ELSE undefined

\* get previousState
previousState(m) ==
    IF Len(m.records) >= 2 THEN m.records[Len(m.records) - 1] ELSE undefined

\* The keys of the state that are input-mapped.
InputKeys == { _inputMappings[i].key : i \in 1 .. Len(_inputMappings) }

\* JavaScript truthiness of a number.
Truthy(v) == v # 0

\* A policy callback, called with (currentState, machine): "everyOther" is
\* (_, m) => m.history.tick % 2 === 0, "oddTicks" its negation.
policy(p, s, m) ==
    CASE p = "everyOther" -> m.tick % 2 = 0
      [] p = "oddTicks"   -> m.tick % 2 = 1

\* _collectInputs: `value` for one mapping, as <<value>>, or << >> when it is
\* undefined
inputValue(m, input, force) ==
    IF input.policy = "always" \/ force
    THEN << _inputSource[input.propertyKey] >>
    ELSE IF input.policy = "once"
    THEN IF m.tick = 1 THEN << _inputSource[input.propertyKey] >> ELSE << >>
    ELSE IF m.tick >= 1 /\ policy(input.policy, currentState(m), m)
    THEN << _inputSource[input.propertyKey] >>
    ELSE IF input.key \in DOMAIN m.previousInputs
    THEN IF Truthy(m.previousInputs[input.key])
         THEN << m.previousInputs[input.key] >>
         ELSE IF input.key \in DOMAIN currentState(m)
         THEN << currentState(m)[input.key] >>
         ELSE << >>
    ELSE << >>

\* _collectInputs: the loop over the mappings from position i on
RECURSIVE collectFrom(_, _, _, _)
collectFrom(m, force, i, inputs) ==
    IF i > Len(_inputMappings) THEN inputs
    ELSE LET value == inputValue(m, _inputMappings[i], force)
         IN  collectFrom(m, force, i + 1,
                         IF value # << >>
                         THEN ObjectAssign(inputs,
                                           [k \in {_inputMappings[i].key} |-> value[1]])
                         ELSE inputs)

\* _collectInputs(force)
_collectInputs(m, force) ==
    IF _inputSource = undefined THEN Empty
    ELSE collectFrom(m, force, 1, ObjectAssign(Empty, m.previousInputs))

\* _beginTick: `inputs`
beginTickInputs(m, patchCurrent) ==
    IF _inputSource # undefined
    THEN ObjectAssign(ObjectAssign(Empty, m.previousInputs), _collectInputs(m, patchCurrent))
    ELSE undefined

\* _beginTick patching the current record with the inputs in every tick.
beginTickPatch_always(m, patchCurrent, inputs) ==
    IF inputs # undefined
    THEN [m EXCEPT !.previousInputs = inputs,
                   !.records = [@ EXCEPT ![Len(@)] = ObjectAssign(@, inputs)],
                   !.exitState = IF m.exitRef > 0 /\ m.exitRef = Len(m.records)
                                 THEN ObjectAssign(currentState(m), inputs) ELSE @]
    ELSE m

\* _beginTick: the current record (and with it an exit state that refers to
\* it) is patched with the inputs on tick 1
beginTickPatch(m, patchCurrent, inputs) ==
    IF patchCurrent /\ inputs # undefined
    THEN [m EXCEPT !.previousInputs = inputs,
                   !.records = [@ EXCEPT ![Len(@)] = ObjectAssign(@, inputs)],
                   !.exitState = IF m.exitRef > 0 /\ m.exitRef = Len(m.records)
                                 THEN ObjectAssign(currentState(m), inputs) ELSE @]
    ELSE [m EXCEPT !.previousInputs = IF inputs # undefined THEN inputs ELSE @]

\* _beginTick: `sources` merged into the new next state
beginTickSources(previous, current, inputs) ==
    LET s1 == IF previous # undefined THEN ObjectAssign(Empty, previous) ELSE Empty
        s2 == IF current # undefined THEN ObjectAssign(s1, current) ELSE s1
    IN  IF inputs # undefined THEN ObjectAssign(s2, inputs) ELSE s2

\* _beginTick: this._nextState = Object.assign(Object.create(null), ...sources)
beginTickNext(m, inputs) ==
    [m EXCEPT !.nextState = beginTickSources(previousState(m), currentState(m), inputs)]

\* _beginTick with `inputs` computed
beginTickWith(m, patchCurrent, inputs) ==
    beginTickNext(beginTickPatch(m, patchCurrent, inputs), inputs)

\* _beginTick(patchCurrent)
_beginTick(m, patchCurrent) ==
    beginTickWith(m, patchCurrent, beginTickInputs(m, patchCurrent))

\* _nextTick with the splice of the limit setter: the oldest record is kept.
_nextTickRecords_keepOldest(records, nextState, maxHistory) ==
    LET pushed == Append(records, nextState)
    IN  IF Len(pushed) > maxHistory
        THEN Splice(pushed, 1, Len(pushed) - maxHistory)
        ELSE pushed

\* The records that _nextTick leaves: the next state is pushed, then the
\* oldest records beyond the limit are removed.
_nextTickRecords(records, nextState, maxHistory) ==
    LET pushed == Append(records, nextState)
    IN  IF Len(pushed) > maxHistory
        THEN Splice(pushed, 0, Len(pushed) - maxHistory)
        ELSE pushed

\* _nextTick taking the tick from the number of retained records.
_nextTick_countRecords(m) ==
    LET popped == IF m.tick = 0 /\ Len(m.records) >= 1 THEN currentState(m) ELSE Empty
        ns == IF m.tick = 0 THEN ObjectAssign(m.nextState, popped) ELSE m.nextState
        recs0 == IF m.tick = 0 /\ Len(m.records) >= 1
                 THEN SubSeq(m.records, 1, Len(m.records) - 1) ELSE m.records
        recs1 == _nextTickRecords(recs0, ns, m.maxHistory)
    IN  _beginTick([m EXCEPT !.records = recs1, !.exitRef = 0, !.tick = Len(recs1)],
                   m.tick <= 1)

\* _nextTick()
_nextTick(m) ==
    LET popped == IF m.tick = 0 /\ Len(m.records) >= 1 THEN currentState(m) ELSE Empty
        ns == IF m.tick = 0 THEN ObjectAssign(m.nextState, popped) ELSE m.nextState
        recs0 == IF m.tick = 0 /\ Len(m.records) >= 1
                 THEN SubSeq(m.records, 1, Len(m.records) - 1) ELSE m.records
        ref0 == IF m.exitRef > Len(recs0) THEN 0 ELSE m.exitRef
        pushed == Append(recs0, ns)
        over == Len(pushed) - m.maxHistory
        recs1 == _nextTickRecords(recs0, ns, m.maxHistory)
        ref1 == IF Len(pushed) > m.maxHistory THEN SpliceRef(pushed, 0, over, ref0) ELSE ref0
    IN  _beginTick([m EXCEPT !.records = recs1, !.exitRef = ref1, !.tick = m.tick + 1],
                   m.tick <= 1)

\* _mutateTick: p after `delete p[input.key]` for every input mapping
withoutInputs(p) == [k \in DOMAIN p \ InputKeys |-> p[k]]

\* _mutateTick writing into the current record as well as into the next state.
_mutateTick_current(m, p) ==
    [m EXCEPT !.nextState = ObjectAssign(m.nextState, withoutInputs(p)),
              !.records = [@ EXCEPT ![Len(@)] = ObjectAssign(@, withoutInputs(p))]]

\* _mutateTick with the arguments of Object.assign swapped.
_mutateTick_swapped(m, p) ==
    [m EXCEPT !.nextState = ObjectAssign(withoutInputs(p), m.nextState)]

\* _mutateTick without the loop that deletes the input-mapped keys.
_mutateTick_keepInputs(m, p) == [m EXCEPT !.nextState = ObjectAssign(m.nextState, p)]

\* _mutateTick replacing the next state by p instead of merging p into it.
_mutateTick_replace(m, p) == [m EXCEPT !.nextState = withoutInputs(p)]

\* _mutateTick(p)
_mutateTick(m, p) == [m EXCEPT !.nextState = ObjectAssign(m.nextState, withoutInputs(p))]

\* rewind(t, mutate): the tick the call settles on
rewindTick(m, t) == Max(1, Min(m.tick - Len(m.records), t))

\* `target` counted from the tick itself: this.tick - t.
rewindTarget_fromTick(m, t) == m.tick - rewindTick(m, t)

\* rewind(t, mutate): `target`
rewindTarget(m, t) == m.tick - rewindTick(m, t) - 1

\* rewind(t, mutate): this._records[target] is an object, so the call takes effect
rewindFound(m, t) == rewindTarget(m, t) >= 0 /\ rewindTarget(m, t) < Len(m.records)

\* rewind: the records after the splice, with a copy of the initial state
\* pushed when none is left
rewindSplice(records, target) ==
    IF Splice(records, target, Len(records) - target) = <<>>
    THEN <<ObjectAssign(Empty, _initialState)>>
    ELSE Splice(records, target, Len(records) - target)

\* rewind without `if (mutate) Object.assign(<last record>, mutate)`.
rewindMutate_none(records, mutate) == records

\* rewind assigning mutate to the oldest record instead of the last one.
rewindMutate_first(records, mutate) ==
    IF mutate # undefined
    THEN [records EXCEPT ![1] = ObjectAssign(@, mutate)]
    ELSE records

\* rewind: `if (mutate) Object.assign(<last record>, mutate)`
rewindMutate(records, mutate) ==
    IF mutate # undefined
    THEN [records EXCEPT ![Len(records)] = ObjectAssign(@, mutate)]
    ELSE records

\* rewind: `if (this._inputSource) Object.assign(<last record>, this._collectInputs())`
rewindInputs(m, records) ==
    IF _inputSource # undefined
    THEN [records EXCEPT ![Len(records)] =
            ObjectAssign(@, _collectInputs([m EXCEPT !.records = records], FALSE))]
    ELSE records

\* rewind without the assignment that rebuilds _nextState.
rewindSet_keepBuffer(m, t, records, ref0) ==
    [m EXCEPT !.records = records,
              !.exitRef = ref0,
              !.exitState = IF ref0 > 0 /\ ref0 = Len(records)
                            THEN records[Len(records)] ELSE @,
              !.tick = t]

\* rewind: the fields after a call that found its target; ref0 is where the
\* object the exit state refers to is after the splice
rewindSet(m, t, records, ref0) ==
    [m EXCEPT !.records = records,
              !.exitRef = ref0,
              !.exitState = IF ref0 > 0 /\ ref0 = Len(records)
                            THEN records[Len(records)] ELSE @,
              !.tick = t,
              !.nextState = ObjectAssign(Empty, records[Len(records)])]

\* rewind: the call found the record at `target`
rewindTo(m, t, target, mutate) ==
    rewindSet(m, t,
              rewindInputs(m, rewindMutate(rewindSplice(m.records, target), mutate)),
              SpliceRef(m.records, target, Len(m.records) - target, m.exitRef))

\* rewind merging mutate into the current record when it finds no target.
rewind_mutatesAnyway(m, t, mutate) ==
    IF rewindFound(m, t)
    THEN rewindTo(m, rewindTick(m, t), rewindTarget(m, t), mutate)
    ELSE [m EXCEPT !.records = rewindMutate(@, mutate)]

\* rewind(t, mutate)
rewind(m, t, mutate) ==
    IF rewindFound(m, t)
    THEN rewindTo(m, rewindTick(m, t), rewindTarget(m, t), mutate)
    ELSE m

\* clear()
clear(m) == rewind(m, 1, undefined)

\* The limit setter without `if (limit < 1) limit = 1`.
setLimit_raw(m, limit) ==
    LET trim == limit < m.maxHistory
    IN  [m EXCEPT !.records = IF trim THEN Splice(@, 1, Len(@) - limit) ELSE @,
                  !.exitRef = IF trim
                              THEN SpliceRef(m.records, 1, Len(m.records) - limit, @)
                              ELSE @,
                  !.maxHistory = limit]

\* The limit setter without the splice: only _maxHistory is assigned.
setLimit_noTrim(m, limit) ==
    [m EXCEPT !.maxHistory = IF limit < 1 THEN 1 ELSE limit]

\* set limit(limit)
setLimit(m, limit) ==
    LET lim == IF limit < 1 THEN 1 ELSE limit
        trim == lim < m.maxHistory
    IN  [m EXCEPT !.records = IF trim THEN Splice(@, 1, Len(@) - lim) ELSE @,
                  !.exitRef = IF trim
                              THEN SpliceRef(m.records, 1, Len(m.records) - lim, @)
                              ELSE @,
                  !.maxHistory = lim]

\* -------------------------------------------------------------- StateMachine
\* exit() storing the next state, with the writes of the tick in progress.
exit_nextState(m, exitState) ==
    IF exitState # undefined
    THEN [m EXCEPT !.exitState = ObjectAssign(ObjectAssign(Empty, m.nextState), exitState),
                   !.exitRef = 0,
                   !.exitCalled = TRUE]
    ELSE [m EXCEPT !.exitState = ObjectAssign(Empty, m.nextState),
                   !.exitRef = 0,
                   !.exitCalled = TRUE]

\* exit(exitState)
exit(m, exitState) ==
    IF exitState # undefined
    THEN [m EXCEPT !.exitState = ObjectAssign(ObjectAssign(Empty, currentState(m)), exitState),
                   !.exitRef = 0,
                   !.exitCalled = TRUE]
    ELSE [m EXCEPT !.exitState = currentState(m),
                   !.exitRef = Len(m.records),
                   !.exitCalled = TRUE]

\* reset(initialState)
reset(m, initialState) ==
    rewind([m EXCEPT !.exitState = undefined, !.exitRef = 0, !.exitCalled = FALSE],
           Infinity, initialState)

\* The rewind check seeing only a tick counter that grew.
stepAborts_forward(m, tick0) == m.tick > tick0 /\ m.exitState = undefined

\* step(): the loop is left by `return Math.max(1, fired)` (a rewind happened)
stepAborts(m, tick0) == m.tick # tick0 /\ m.exitState = undefined

\* step() without `if (this.exitState) break`.
stepBreaks_never(m, tick0) == FALSE

\* step(): the loop is left by `break`
stepBreaks(m, tick0) == ~stepAborts(m, tick0) /\ m.exitState # undefined

\* step() without the `fired === 0` statement (as in src/src/stateMachine.ts).
stepEnd_noExit(m, n) == _nextTick(m)

\* step(): `if (fired === 0) this._exitState = this.history.currentState`
stepHalt(m, n) ==
    IF n = 0
    THEN [m EXCEPT !.exitState = currentState(m), !.exitRef = Len(m.records)]
    ELSE m

\* step(): the statements after the loop
stepEnd(m, n) == stepHalt(_nextTick(m), n)

\* run() leaving its loop also after a step that returned 1.
runBreaks_belowTwo(fv, chg) == ~fv /\ chg <= 1

\* run(): `if (!forever && !change) break`
runBreaks(fv, chg) == ~fv /\ chg = 0

\* run() returning the current state whatever the exit state.
runResult_current(m) == currentState(m)

\* run(): the value returned
runResult(m) == IF m.exitState # undefined THEN m.exitState ELSE currentState(m)

\* ------------------------------------------------------------------ programs
\* The rules, named after the test machines' methods.
RuleNames == {"incrementOncePerTick", "mark", "keepMe", "exitWhenDone", "exitOnTick",
              "exitWith", "exitTwice", "exitAndClear", "rewindWhenDone", "rewindAtTick",
              "rewindAndCount", "rewindAtStart",
              "tryToOverwriteInput", "incrementUnless", "incrementInhibited",
              "runsEveryOtherTime", "incrementEveryOther", "inhibitedByMissing",
              "incrementCounterOncePerTick", "resetNotPrime", "capturePrime",
              "exitMachine"}

\* PrimeMachine: `state.primes.length >= 10`
PrimeCount == 10

\* The condition of a rule's @when (with those of its .andWhen), called with
\* (currentState, machine).
when(r, s, m) ==
    CASE r = "incrementOncePerTick" -> s.value < MaxVal
      [] r = "mark"                 -> s.value < MaxVal /\ s.cycle < MaxCycle
      [] r = "keepMe"               -> s.value < MaxVal
      [] r = "exitWhenDone"         -> s.value >= MaxVal
      [] r = "exitOnTick"           -> m.tick >= 2
      [] r = "exitWith"             -> s.value >= MaxVal
      [] r = "exitTwice"            -> s.value >= MaxVal
      [] r = "exitAndClear"         -> s.value >= MaxVal
      [] r = "rewindWhenDone"       -> ~(s.value < MaxVal)
      [] r = "rewindAtTick"         -> m.tick = 3 /\ s.cycle < MaxCycle
      [] r = "rewindAndCount"       -> m.tick = 2 /\ s.cycle < MaxCycle
      [] r = "rewindAtStart"        -> m.tick = 1
      [] r = "tryToOverwriteInput"  -> m.tick <= MaxTick
      [] r = "incrementUnless"      -> TRUE
      [] r = "incrementInhibited"   -> s.value < MaxVal
      [] r = "runsEveryOtherTime"   -> m.tick % 2 = 0
      [] r = "incrementEveryOther"  -> s.value < MaxVal /\ m.tick % 2 = 0
      [] r = "inhibitedByMissing"   -> s.value < MaxVal
      [] r = "incrementCounterOncePerTick" -> s.counter < s.current
      [] r = "resetNotPrime"        -> s.counter < s.current /\ s.current % s.counter = 0
      [] r = "capturePrime"         -> s.counter >= s.current
      [] r = "exitMachine"          -> Len(s.primes) >= PrimeCount

\* The inhibitor of a rule's .unless(inhibitor), called with (currentState,
\* machine); FALSE for a rule declared without one.
unless(r, s, m) ==
    CASE r = "incrementUnless" -> s.value >= MaxVal
      [] OTHER                 -> FALSE

\* The rules named by a rule's .inhibitedBy(inhibitorAction).
inhibitedBy(r) ==
    CASE r = "incrementInhibited" -> {"runsEveryOtherTime"}
      [] r = "inhibitedByMissing" -> {"missing"}
      [] OTHER                    -> {}

\* findCond: the named method exists and carries an activation condition;
\* otherwise the condition built by .inhibitedBy throws when it is called.
findCond(q) == q \in RuleNames

\* Calling the activation condition of a rule throws: the condition built by
\* .inhibitedBy is the first of the chain, and calls the inhibitor's condition.
RECURSIVE condThrows(_)
condThrows(r) ==
    \E q \in inhibitedBy(r) : ~findCond(q) \/ condThrows(q)

\* The activation condition without the conditions built by .inhibitedBy.
cond_noInhibitedBy(r, s, m) == when(r, s, m) /\ ~unless(r, s, m)

\* The activation condition of a rule (buildDecorator), called with
\* (currentState, machine): every condition of the chain returns true.
RECURSIVE cond(_, _, _)
cond(r, s, m) ==
    /\ when(r, s, m)
    /\ ~unless(r, s, m)
    /\ \A q \in inhibitedBy(r) : ~cond(q, s, m)

\* The priority metadata the @priority decorator attaches to a rule's method
\* (default 0); `mark` is declared with .priority(1).
priority(r) == IF r = "mark" THEN 1 ELSE 0

\* The calls a rule's action makes on the machine, in order.
calls(r, s, m) ==
    CASE r = "exitWhenDone"   -> << [op |-> "exit", arg |-> undefined] >>
      [] r = "exitOnTick"     -> << [op |-> "exit", arg |-> undefined] >>
      [] r = "exitWith"       -> << [op |-> "exit", arg |-> [cycle |-> MaxCycle]] >>
      [] r = "exitTwice"      -> << [op |-> "exit", arg |-> undefined],
                                    [op |-> "exit", arg |-> [cycle |-> MaxCycle]] >>
      [] r = "exitAndClear"   -> << [op |-> "exit", arg |-> [value |-> 0]],
                                    [op |-> "clear"] >>
      [] r = "rewindWhenDone" -> IF s.cycle < MaxCycle
                                 THEN << [op |-> "rewind", t |-> Infinity,
                                          arg |-> [cycle |-> s.cycle + 1]] >>
                                 ELSE << [op |-> "exit", arg |-> undefined] >>
      [] r = "rewindAtTick"   -> << [op |-> "rewind", t |-> 2,
                                     arg |-> [cycle |-> s.cycle + 1]] >>
      [] r = "rewindAndCount" -> << [op |-> "rewind", t |-> 1, arg |-> undefined] >>
      [] r = "rewindAtStart"  -> << [op |-> "rewind", t |-> Infinity,
                                     arg |-> [cycle |-> MaxCycle]] >>
      [] r = "exitMachine"    -> << [op |-> "exit",
                                     arg |-> [counter |-> 0, current |-> 0,
                                              primes |-> m.nextState.primes]] >>
      [] OTHER                -> << >>

\* The update a rule's action returns (undefined: none).
newState(r, s, m) ==
    CASE r = "incrementOncePerTick" -> [value |-> s.value + 1]
      [] r = "mark"                 -> [value |-> 0, cycle |-> s.cycle + 1]
      [] r = "tryToOverwriteInput"  -> [externalCounter |-> MaxInput + 1,
                                        cycle |-> MaxCycle]
      [] r = "incrementUnless"      -> [value |-> s.value + 1]
      [] r = "incrementInhibited"   -> [value |-> s.value + 1]
      [] r = "runsEveryOtherTime"   -> [value |-> s.value - 1]
      [] r = "incrementEveryOther"  -> [value |-> s.value + 1]
      [] r = "inhibitedByMissing"   -> [value |-> s.value + 1]
      [] r = "rewindAndCount"       -> [cycle |-> s.cycle + 1]
      [] r = "incrementCounterOncePerTick" -> [counter |-> s.counter + 1]
      [] r = "resetNotPrime"        -> [counter |-> 2, current |-> s.current + 1]
      [] r = "capturePrime"         -> [counter |-> 2, current |-> s.current + 1,
                                        primes |-> Append(s.primes, s.current)]
      [] OTHER                      -> undefined

\* One call of an action on the machine.
call(m, c) ==
    CASE c.op = "exit"   -> exit(m, c.arg)
      [] c.op = "rewind" -> rewind(m, c.t, c.arg)
      [] c.op = "clear"  -> clear(m)

\* The calls of an action, in order.
RECURSIVE body(_, _)
body(m, cs) == IF cs = <<>> THEN m ELSE body(call(m, Head(cs)), Tail(cs))

\* history: the tick and the records a rewind left
RewoundTo(m) == [tick |-> m.tick, records |-> m.records]

\* history: the machine right after the first call of cs that rewound, or undefined
RECURSIVE bodyRewound(_, _)
bodyRewound(m, cs) ==
    IF cs = <<>> THEN undefined
    ELSE IF /\ Head(cs).op \in {"rewind", "clear"}
            /\ rewindFound(m, IF Head(cs).op = "clear" THEN 1 ELSE Head(cs).t)
         THEN RewoundTo(call(m, Head(cs)))
         ELSE bodyRewound(call(m, Head(cs)), Tail(cs))

\* history: what an exit() call with the argument arg stored
ExitStored(m, arg) == [state |-> m.exitState, arg |-> arg, first |-> m.exitState]

\* history: the exit() calls `here` and `later` of one action
ExitsJoined(here, later) ==
    IF later = undefined THEN here
    ELSE IF here = undefined THEN later
    ELSE [later EXCEPT !.first = here.first]

\* history: the argument of the last exit() call among cs, the exit state it
\* stored and the exit state the first exit() call among cs stored, or undefined
RECURSIVE bodyExit(_, _)
bodyExit(m, cs) ==
    IF cs = <<>> THEN undefined
    ELSE ExitsJoined(IF Head(cs).op = "exit"
                     THEN ExitStored(exit(m, Head(cs).arg), Head(cs).arg)
                     ELSE undefined,
                     bodyExit(call(m, Head(cs)), Tail(cs)))

\* All orders of a set of rules.
RECURSIVE Perms(_)
Perms(S) ==
    IF S = {} THEN { <<>> }
    ELSE UNION { { <<r>> \o p : p \in Perms(S \ {r}) } : r \in S }

\* The rule sets of the machines under test.
RuleSets == { {"incrementOncePerTick"},
              {"incrementOncePerTick", "exitWhenDone"},
              {"incrementOncePerTick", "exitOnTick"},
              {"incrementOncePerTick", "mark"},
              {"incrementOncePerTick", "keepMe", "exitWith"},
              {"incrementOncePerTick", "exitTwice"},
              {"incrementOncePerTick", "exitAndClear"},
              {"incrementOncePerTick", "rewindWhenDone", "exitWhenDone"},
              {"keepMe", "incrementOncePerTick", "rewindAtTick"},
              {"incrementUnless", "incrementInhibited", "runsEveryOtherTime"},
              {"keepMe", "incrementEveryOther"},
              {"incrementOncePerTick", "inhibitedByMissing"},
              {"incrementOncePerTick", "rewindAndCount"},
              {"rewindAtStart", "incrementOncePerTick"} }

Programs == UNION { Perms(S) : S \in RuleSets }

\* The rule sets of the machines constructed with an input source.
InputRuleSets == { {"incrementOncePerTick", "tryToOverwriteInput"} }

InputPrograms == UNION { Perms(S) : S \in InputRuleSets }

\* The policy callbacks of the @input declarations.
PolicyCallbacks == {"everyOther", "oddTicks"}

\* The @input declarations of the input source: the getter externalCounter,
\* polled `always`, `once` or when a policy callback returns true.
InputMappings ==
    { << [key |-> "externalCounter", propertyKey |-> "externalCounter", policy |-> pol] >> :
         pol \in {"always", "once"} \cup PolicyCallbacks }

\* The values of the input source's property.
InputValues == 0 .. MaxInput

\* The seed states of the machines under test.
Seeds == { [value |-> 0, cycle |-> 0] }

\* The mutations the host passes to rewind and the states it passes to reset.
Mutations == { undefined, [cycle |-> MaxCycle] }

\* A mutation that names the input-mapped field.
InputMutations == { [externalCounter |-> MaxInput + 2, cycle |-> MaxCycle] }

ResetStates == { [value |-> 1, cycle |-> 0] }

\* The limits the host assigns.
Limits == (0 .. MaxLimit) \cup {Infinity}

\* The ticks the host rewinds to.
RewindTicks == (1 .. MaxTick) \cup {Infinity}

\* ------------------------------------------------------------- construction
\* new HistoryManager(instance, initialState): the fields before _nextTick()
constructed(seed) ==
    LET m0 == [records |-> <<>>, tick |-> 0, nextState |-> Empty,
               maxHistory |-> Infinity, exitState |-> undefined, exitRef |-> 0,
               exitCalled |-> FALSE, previousInputs |-> Empty]
    IN  [m0 EXCEPT !.nextState =
            ObjectAssign(ObjectAssign(Empty, ObjectAssign(Empty, seed)),
                         _collectInputs(m0, TRUE))]

\* The machine's objects are those of m, the machine the constructors leave.
Constructed(m) ==
    /\ _records = m.records
    /\ _previousInputs = m.previousInputs
    /\ _tick = m.tick
    /\ _nextState = m.nextState
    /\ _maxHistory = m.maxHistory
    /\ _exitState = m.exitState
    /\ exitRef = m.exitRef
    /\ exitCalled = m.exitCalled
    /\ committed = m.records

Init ==
    /\ \/ /\ _program \in Programs
          /\ _inputSource = undefined
          /\ _inputMappings = << >>
       \/ /\ _program \in InputPrograms
          /\ \E v \in InputValues : _inputSource = [externalCounter |-> v]
          /\ _inputMappings \in InputMappings
    /\ _initialState \in Seeds
    /\ Constructed(_nextTick(constructed(_initialState)))
    /\ snapshot = undefined
    /\ pc = "idle"
    /\ idx = 0
    /\ fired = 0
    /\ currentTick = 0
    /\ forever = FALSE
    /\ inRun = FALSE
    /\ change = 0
    /\ result = undefined
    /\ hostOps = 0
    /\ log = <<>>
    /\ rewound = undefined
    /\ exitSet = undefined
    /\ runLog = <<>>
    /\ plain = TRUE
    /\ written = {}
    /\ lastOp = [op |-> "new"]
    /\ other = undefined
    /\ child = undefined

\* The machine's objects become those of m.
Becomes(m) ==
    /\ _records' = m.records
    /\ _tick' = m.tick
    /\ _nextState' = m.nextState
    /\ _maxHistory' = m.maxHistory
    /\ _exitState' = m.exitState
    /\ exitRef' = m.exitRef
    /\ exitCalled' = m.exitCalled
    /\ _previousInputs' = m.previousInputs

\* history: `committed` and `plain` after a host operation
HostHistory(rewinds, limits) ==
    /\ plain' = (plain /\ ~rewinds /\ ~(limits /\ _tick > 1))
    /\ committed' = IF plain' THEN committed ELSE <<>>

\* step(): body.call(...) and this._history._mutateTick(newState)
action(m, cs, p) ==
    IF p # undefined THEN _mutateTick(body(m, cs), p) ELSE body(m, cs)

\* step() left by an exception that the loop raised after the tick was
\* committed.
stepThrows_committed(m) == _nextTick(m)

\* step() left by an exception that `cond.call` raised: no statement of
\* step() after it runs
stepThrows(m) == m

\* step() as one operation of the machine m with the program prog: the loop
\* from position i on, n rules having fired; the machine it leaves and the
\* value it returns
RECURSIVE stepLoop(_, _, _, _, _)
stepLoop(prog, m, i, n, tick0) ==
    IF i <= Len(prog) /\ stepAborts(m, tick0)
    THEN [machine |-> m, fired |-> Max(1, n)]
    ELSE IF i > Len(prog) \/ stepBreaks(m, tick0)
    THEN [machine |-> stepEnd(m, n), fired |-> n]
    ELSE IF condThrows(prog[i])
    THEN [machine |-> stepThrows(m), fired |-> undefined]
    ELSE IF cond(prog[i], currentState(m), m)
    THEN stepLoop(prog,
                  action(m, calls(prog[i], currentState(m), m),
                         newState(prog[i], currentState(m), m)),
                  i + 1, n + 1, tick0)
    ELSE stepLoop(prog, m, i + 1, n, tick0)

\* step() as one operation, from its first statement
step(prog, m) ==
    IF m.tick < 1
    THEN stepLoop(prog, _nextTick(m), 1, 0, _nextTick(m).tick)
    ELSE stepLoop(prog, m, 1, 0, m.tick)

\* ------------------------------------------------------------------- step()
\* step(): the statements before the loop
EnterLoop(m) ==
    /\ Becomes(m)
    /\ fired' = 0
    /\ currentTick' = m.tick
    /\ idx' = 1
    /\ pc' = "step"
    /\ snapshot' = currentState(m)
    /\ log' = <<>>
    /\ rewound' = undefined
    /\ exitSet' = undefined
    /\ UNCHANGED <<_program, _initialState, _inputSource, _inputMappings, change,
                   result, hostOps, committed, plain, written, other, child>>

\* step(): `if (this.history.tick < 1) this._history._nextTick()`, then the loop
EnterStep(m) == EnterLoop(IF m.tick < 1 THEN _nextTick(m) ELSE m)

\* The host calls step().
Step ==
    /\ pc = "idle"
    /\ _tick < MaxTick
    /\ EnterStep(M)
    /\ inRun' = FALSE
    /\ lastOp' = [op |-> "enter"]
    /\ UNCHANGED <<forever, runLog>>

\* step() returns chg, leaving the machine as m: control goes back to the host
\* or to run()'s loop.
LeaveStep(m, chg, how) ==
    /\ Becomes(m)
    /\ change' = chg
    /\ IF ~inRun
       THEN /\ pc' = "idle"
            /\ lastOp' = [op |-> "step", how |-> how, inputs |-> _previousInputs]
            /\ UNCHANGED <<result, runLog, inRun>>
       ELSE /\ runLog' = Append(runLog, [fired |-> fired, exited |-> exitSet # undefined,
                                          rewound |-> rewound # undefined])
            /\ IF runBreaks(forever, chg)
               THEN /\ pc' = "idle"
                    /\ result' = runResult(m)
                    /\ lastOp' = [op |-> "run", how |-> how, inputs |-> _previousInputs]
                    /\ inRun' = FALSE
               ELSE /\ pc' = "run"
                    /\ lastOp' = [op |-> "step", how |-> how, inputs |-> _previousInputs]
                    /\ UNCHANGED <<result, inRun>>
    /\ idx' = 0
    /\ fired' = 0
    /\ currentTick' = 0
    /\ UNCHANGED <<_program, _initialState, _inputSource, _inputMappings, forever, hostOps, snapshot, log,
                   rewound, exitSet, written, other, child>>

\* history: the fields named by the mutate arguments of the rewind calls cs
\* of an action and by the update p it returns
Named(cs, p) ==
    UNION { IF cs[i].op = "rewind" /\ cs[i].arg # undefined
            THEN DOMAIN cs[i].arg ELSE {} : i \in 1 .. Len(cs) }
       \cup (IF p # undefined THEN DOMAIN p ELSE {})

\* step(): the rule at idx fired and left the machine as m; br and be are
\* the rewind and the exit() calls of its action
Fires(m, br, be) ==
    /\ Becomes(m)
    /\ fired' = fired + 1
    /\ rewound' = IF br # undefined THEN [rule |-> idx] @@ br ELSE rewound
    /\ exitSet' = IF be # undefined THEN be ELSE exitSet
    /\ plain' = (plain /\ br = undefined)
    /\ committed' = IF plain' THEN committed ELSE <<>>

\* step(): one iteration of the loop that evaluates a rule
EvalRule ==
    /\ pc = "step"
    /\ idx <= Len(_program)
    /\ ~stepAborts(M, currentTick)
    /\ ~stepBreaks(M, currentTick)
    /\ ~condThrows(_program[idx])
    /\ LET r == _program[idx]
           s == currentState(M)
       IN  /\ log' = Append(log, [rule |-> idx, state |-> s, tick |-> _tick,
                                  fired |-> cond(r, s, M),
                                  newState |-> IF cond(r, s, M)
                                               THEN newState(r, s, M) ELSE undefined])
           /\ IF cond(r, s, M)
              THEN Fires(action(M, calls(r, s, M), newState(r, s, M)),
                         bodyRewound(M, calls(r, s, M)),
                         bodyExit(M, calls(r, s, M)))
              ELSE /\ Becomes(M)
                   /\ UNCHANGED <<fired, rewound, exitSet, plain, committed>>
           /\ written' = IF cond(r, s, M)
                         THEN written \cup Named(calls(r, s, M), newState(r, s, M))
                         ELSE written
    /\ idx' = idx + 1
    /\ lastOp' = [op |-> "rule"]
    /\ UNCHANGED <<_program, _initialState, _inputSource, _inputMappings, pc, currentTick, forever, inRun, change,
                   result, hostOps, snapshot, runLog, other, child>>

\* step(): `cond.call(this, ...)` throws; the exception leaves step(), and
\* run() when it called step(), and reaches the host
StepThrows ==
    /\ pc = "step"
    /\ idx <= Len(_program)
    /\ ~stepAborts(M, currentTick)
    /\ ~stepBreaks(M, currentTick)
    /\ condThrows(_program[idx])
    /\ Becomes(stepThrows(M))
    /\ pc' = "idle"
    /\ inRun' = FALSE
    /\ idx' = 0
    /\ fired' = 0
    /\ currentTick' = 0
    /\ lastOp' = [op |-> "step", how |-> "throw", rule |-> idx, tick |-> currentTick,
                  records |-> _records, exitState |-> _exitState]
    /\ UNCHANGED <<_program, _initialState, _inputSource, _inputMappings, forever, change,
                   result, hostOps, snapshot, log, rewound, exitSet, runLog, committed,
                   plain, written, other, child>>

\* step(): the tick changed under the loop: return Math.max(1, fired)
StepAbort ==
    /\ pc = "step"
    /\ idx <= Len(_program)
    /\ stepAborts(M, currentTick)
    /\ LeaveStep(M, Max(1, fired), "abort")
    /\ UNCHANGED <<committed, plain>>

\* step(): the loop ended or was left by `break`: commit and return fired
StepCommit ==
    /\ pc = "step"
    /\ idx > Len(_program) \/ stepBreaks(M, currentTick)
    /\ LeaveStep(stepEnd(M, fired), fired, "commit")
    /\ committed' = IF plain
                     THEN Append(committed, currentState(stepEnd(M, fired)))
                     ELSE <<>>
    /\ UNCHANGED plain

\* -------------------------------------------------------------------- run()
\* The host calls run(forever).
Run ==
    /\ pc = "idle"
    /\ \E fv \in BOOLEAN : forever' = fv
    /\ pc' = "run"
    /\ inRun' = TRUE
    /\ runLog' = <<>>
    /\ lastOp' = [op |-> "call run"]
    /\ UNCHANGED <<_program, _initialState, _inputSource, _inputMappings, _records, _tick, _nextState, _maxHistory,
                   _exitState, _previousInputs, exitRef, exitCalled, idx, fired,
                   currentTick, change, result, hostOps, snapshot, log, rewound,
                   exitSet, committed, plain, written, other, child>>

\* run(): `while (!this._exitState)` lets the loop go on: step() is called
RunStep ==
    /\ pc = "run"
    /\ _exitState = undefined
    /\ _tick < MaxTick
    /\ EnterStep(M)
    /\ lastOp' = [op |-> "enter"]
    /\ UNCHANGED <<forever, inRun, runLog>>

\* run(): `while (!this._exitState)` ends the loop: return
RunReturn ==
    /\ pc = "run"
    /\ _exitState # undefined
    /\ pc' = "idle"
    /\ inRun' = FALSE
    /\ result' = runResult(M)
    /\ lastOp' = [op |-> "run", how |-> "exited"]
    /\ UNCHANGED <<_program, _initialState, _inputSource, _inputMappings, _records, _tick, _nextState, _maxHistory,
                   _exitState, _previousInputs, exitRef, exitCalled, idx, fired,
                   currentTick, forever, change, hostOps, snapshot, log, rewound,
                   exitSet, runLog, committed, plain, written, other, child>>

\* ------------------------------------------------- the host's history calls
HostFrame ==
    /\ hostOps' = hostOps + 1
    /\ change' = 0
    /\ result' = undefined
    /\ snapshot' = undefined
    /\ log' = <<>>
    /\ rewound' = undefined
    /\ exitSet' = undefined
    /\ runLog' = <<>>
    /\ forever' = FALSE
    /\ UNCHANGED <<_program, _initialState, _inputSource, _inputMappings, pc, idx, fired, currentTick, inRun,
                   other, child>>

\* The host assigns history.limit.
SetLimit ==
    /\ pc = "idle"
    /\ hostOps < MaxHostOps
    /\ \E limit \in Limits :
          /\ Becomes(setLimit(M, limit))
          /\ HostHistory(FALSE, TRUE)
          /\ UNCHANGED written
          /\ lastOp' = [op |-> "limit", limit |-> limit, records |-> _records,
                        tick |-> _tick, maxHistory |-> _maxHistory]
    /\ HostFrame

\* The host calls history.rewind(t, mutate).
Rewind ==
    /\ pc = "idle"
    /\ hostOps < MaxHostOps
    /\ \E t \in RewindTicks,
          mutate \in Mutations \cup (IF _inputSource # undefined THEN InputMutations ELSE {}) :
          /\ Becomes(rewind(M, t, mutate))
          /\ HostHistory(rewindFound(M, t), FALSE)
          /\ written' = IF rewindFound(M, t) /\ mutate # undefined
                        THEN written \cup DOMAIN mutate ELSE written
          /\ lastOp' = [op |-> "rewind", t |-> t, mutate |-> mutate,
                        records |-> _records, tick |-> _tick, plain |-> plain,
                        found |-> rewindFound(M, t)]
    /\ HostFrame

\* The host calls history.clear().
Clear ==
    /\ pc = "idle"
    /\ hostOps < MaxHostOps
    /\ Becomes(clear(M))
    /\ HostHistory(rewindFound(M, 1), FALSE)
    /\ UNCHANGED written
    /\ lastOp' = [op |-> "clear", records |-> _records, tick |-> _tick,
                  nextState |-> _nextState, plain |-> plain,
                  again |-> lastOp.op = "clear",
                  first |-> IF lastOp.op = "clear" THEN lastOp.first
                            ELSE rewindFound(M, 1)]
    /\ HostFrame

\* The host calls reset(initialState); without an argument initialState is
\* history.initialState.
Reset ==
    /\ pc = "idle"
    /\ hostOps < MaxHostOps
    /\ \E s \in ResetStates \cup {_initialState} :
          /\ Becomes(reset(M, s))
          /\ HostHistory(rewindFound(M, Infinity), FALSE)
          /\ written' = IF rewindFound(M, Infinity)
                        THEN written \cup DOMAIN s ELSE written
          /\ lastOp' = [op |-> "reset", state |-> s, records |-> _records,
                        tick |-> _tick]
    /\ HostFrame

\* The host changes the value of the input source's property
\* (inputSource.update() in the test '@input works').
Update ==
    /\ pc = "idle"
    /\ _inputSource # undefined
    /\ \E v \in InputValues :
          /\ v # _inputSource.externalCounter
          /\ _inputSource' = [_inputSource EXCEPT !.externalCounter = v]
    /\ lastOp' = [op |-> "update"]
    /\ UNCHANGED <<_program, _initialState, _inputMappings, _records, _tick, _nextState,
                   _maxHistory, _exitState, _previousInputs, exitRef, exitCalled, pc,
                   idx, fired, currentTick, forever, inRun, change, result, hostOps,
                   snapshot, log, rewound, exitSet, runLog, committed, plain, written,
                   other, child>>

Next ==
    \/ Step
    \/ EvalRule
    \/ StepThrows
    \/ StepAbort
    \/ StepCommit
    \/ Run
    \/ RunStep
    \/ RunReturn
    \/ SetLimit
    \/ Rewind
    \/ Clear
    \/ Reset
    \/ Update

Spec == Init /\ [][Next]_vars

\* ---------------------------------------------------------------- recombine
\* The seed of the machine passed to recombine.
OtherSeeds == { [value |-> 1, cycle |-> 0] }

\* The programs of the machine that recombines (this) and of the machine it
\* recombines with (other).
ThisPrograms == { <<"incrementOncePerTick">>, <<"incrementOncePerTick", "exitWhenDone">> }

OtherPrograms == { <<"keepMe", "incrementEveryOther">>, <<"exitOnTick", "incrementOncePerTick">> }

\* The initialState arguments of recombine: the strings 'current' and
\* 'initial', and a state.
InitialStateArgs == { [string |-> "current"], [string |-> "initial"] } \cup Seeds

\* This machine as one value: its objects, its rule table and its initial state.
This == [machine |-> M, program |-> _program, initialState |-> _initialState]

\* program.set(cond, action) for every entry of a rule table, in order: a rule
\* whose condition is already a key of the Map keeps its place.
RECURSIVE programSet(_, _)
programSet(program, entries) ==
    IF entries = <<>> THEN program
    ELSE programSet(IF \E i \in 1 .. Len(program) : program[i] = Head(entries)
                    THEN program
                    ELSE Append(program, Head(entries)),
                    Tail(entries))

\* recombine: `state`; low and high are the machines without and with
\* precedence
recombineState(low, high, initialState) ==
    IF "string" \notin DOMAIN initialState THEN initialState
    ELSE IF initialState.string = "current"
    THEN ObjectAssign(ObjectAssign(Empty, currentState(low.machine)),
                      currentState(high.machine))
    ELSE ObjectAssign(ObjectAssign(Empty, low.initialState), high.initialState)

\* recombine: `new StateMachine(state)` with the rule table `program`
newChild(state, program) ==
    [self |-> "child",
     machine |-> _nextTick(constructed(state)),
     program |-> program,
     initialState |-> ObjectAssign(Empty, state)]

\* recombine merging the other machine's rules into this machine's rule table
\* and returning this machine.
recombine_inPlace(this, that, precedence, initialState) ==
    [this |-> [this EXCEPT !.program = programSet(this.program, that.program)],
     other |-> that,
     child |-> [newChild(this.initialState, <<>>) EXCEPT !.self = "this"]]

\* recombine(other, precedence, initialState): the two machines after the call
\* and the machine it returns
recombine(this, that, precedence, initialState) ==
    [this |-> this,
     other |-> that,
     child |-> newChild(IF precedence = "this"
                        THEN recombineState(that, this, initialState)
                        ELSE recombineState(this, that, initialState),
                        programSet(programSet(<<>>, that.program), this.program))]

\* The variables of this machine's objects.
thisVars == <<_records, _tick, _nextState, _maxHistory, _exitState, exitRef,
              exitCalled, _previousInputs>>

\* The variables a call on another machine object leaves alone.
hostVars == <<_program, _initialState, _inputSource, _inputMappings, pc, idx, fired,
              currentTick, forever, inRun, change, result, hostOps, snapshot, log,
              rewound, exitSet, runLog, committed, plain, written>>

\* The host calls this.recombine(other, precedence, initialState).
Recombine ==
    /\ pc = "idle"
    /\ other # undefined
    /\ child = undefined
    /\ \E precedence \in {"this", "other"}, initialState \in InitialStateArgs :
          /\ Becomes(recombine(This, other, precedence, initialState).this.machine)
          /\ _program' = recombine(This, other, precedence, initialState).this.program
          /\ other' = recombine(This, other, precedence, initialState).other
          /\ child' = recombine(This, other, precedence, initialState).child
          /\ lastOp' = [op |-> "recombine", precedence |-> precedence,
                        initialState |-> initialState]
    /\ UNCHANGED <<_initialState, _inputSource, _inputMappings, pc, idx, fired,
                   currentTick, forever, inRun, change, result, hostOps, snapshot, log,
                   rewound, exitSet, runLog, committed, plain, written>>

\* The machine object the reference returned by recombine denotes.
childMachine == IF child.self = "this" THEN M ELSE child.machine

\* A call on the returned machine leaves it as m.
ChildBecomes(m) ==
    IF child.self = "this"
    THEN Becomes(m) /\ UNCHANGED child
    ELSE child' = [child EXCEPT !.machine = m] /\ UNCHANGED thisVars

\* rewind(t) on the returned machine, whose history restores a copy of its own
\* initial state when no record is left
childRewind(t) ==
    IF rewindFound(childMachine, t) /\ rewindTarget(childMachine, t) = 0
    THEN [rewind(childMachine, t, undefined)
             EXCEPT !.records = << ObjectAssign(Empty, child.initialState) >>,
                    !.nextState = ObjectAssign(Empty, child.initialState)]
    ELSE rewind(childMachine, t, undefined)

\* The host calls step() on the returned machine.
ChildStep ==
    /\ pc = "idle"
    /\ child # undefined
    /\ childMachine.tick < MaxTick
    /\ ChildBecomes(step(child.program, childMachine).machine)
    /\ lastOp' = [op |-> "child step"]
    /\ UNCHANGED <<hostVars, other>>

\* The host calls history.rewind(t) on the returned machine.
ChildRewind ==
    /\ pc = "idle"
    /\ child # undefined
    /\ \E t \in RewindTicks :
          /\ rewindFound(childMachine, t)
          /\ ChildBecomes(childRewind(t))
    /\ lastOp' = [op |-> "child rewind"]
    /\ UNCHANGED <<hostVars, other>>

\* The host calls step() on the machine that was passed to recombine.
OtherStep ==
    /\ pc = "idle"
    /\ other # undefined
    /\ other.machine.tick < MaxTick
    /\ other' = [other EXCEPT !.machine = step(other.program, other.machine).machine]
    /\ lastOp' = [op |-> "other step"]
    /\ UNCHANGED <<hostVars, thisVars, child>>

\* Two machines without input source, constructed by the host.
RecombineInit ==
    /\ _program \in ThisPrograms
    /\ _inputSource = undefined
    /\ _inputMappings = << >>
    /\ _initialState \in Seeds
    /\ Constructed(_nextTick(constructed(_initialState)))
    /\ snapshot = undefined
    /\ pc = "idle"
    /\ idx = 0
    /\ fired = 0
    /\ currentTick = 0
    /\ forever = FALSE
    /\ inRun = FALSE
    /\ change = 0
    /\ result = undefined
    /\ hostOps = 0
    /\ log = <<>>
    /\ rewound = undefined
    /\ exitSet = undefined
    /\ runLog = <<>>
    /\ plain = TRUE
    /\ written = {}
    /\ lastOp = [op |-> "new"]
    /\ \E seed \in OtherSeeds, program \in OtherPrograms :
          other = [machine |-> _nextTick(constructed(seed)), program |-> program,
                   initialState |-> ObjectAssign(Empty, seed)]
    /\ child = undefined

RecombineNext ==
    \/ Step
    \/ EvalRule
    \/ StepCommit
    \/ Rewind
    \/ Recombine
    \/ ChildStep
    \/ ChildRewind
    \/ OtherStep

RecombineSpec == RecombineInit /\ [][RecombineNext]_vars

\* ------------------------------------- 'Has functioning rewind with side-effects'
\* The seeds of the test machine: {value: 0, cycle: 0} in the test.
RewindTestSeeds == [value : 0 .. MaxVal, cycle : 0 .. MaxCycle]

\* The rules of the test machine (exitWhenDone of the test is rewindWhenDone
\* here).
RewindTestPrograms == Perms({"incrementOncePerTick", "rewindWhenDone"})

\* The test machine, constructed.
RewindTestInit ==
    /\ _program \in RewindTestPrograms
    /\ _inputSource = undefined
    /\ _inputMappings = << >>
    /\ _initialState \in RewindTestSeeds
    /\ Constructed(_nextTick(constructed(_initialState)))
    /\ snapshot = undefined
    /\ pc = "idle"
    /\ idx = 0
    /\ fired = 0
    /\ currentTick = 0
    /\ forever = FALSE
    /\ inRun = FALSE
    /\ change = 0
    /\ result = undefined
    /\ hostOps = 0
    /\ log = <<>>
    /\ rewound = undefined
    /\ exitSet = undefined
    /\ runLog = <<>>
    /\ plain = TRUE
    /\ written = {}
    /\ lastOp = [op |-> "new"]
    /\ other = undefined
    /\ child = undefined

\* The steps one run() of the test takes at most: MaxVal + 1 steps up to each
\* rewind and up to the exit, with a spare step for each.
RewindTestSteps == (MaxCycle + 1) * (MaxVal + 2)

\* run(): `while (!this._exitState)` lets the loop go on: step() is called
RewindTestStep ==
    /\ pc = "run"
    /\ _exitState = undefined
    /\ Len(runLog) < RewindTestSteps
    /\ EnterStep(M)
    /\ lastOp' = [op |-> "enter"]
    /\ UNCHANGED <<forever, inRun, runLog>>

\* The test calls run(); nothing else is called on the machine.
RewindTestNext ==
    \/ Run
    \/ RewindTestStep
    \/ EvalRule
    \/ StepAbort
    \/ StepCommit
    \/ RunReturn

\* run() is a blocking loop: a call that can take a step takes it.
RewindTestSpec ==
    RewindTestInit /\ [][RewindTestNext]_vars /\ WF_vars(RewindTestNext)

\* ------------------------------------------------------- 'Can calculate a prime'
\* The rules of PrimeMachine, in the order of their declaration.
PrimeProgram == <<"incrementCounterOncePerTick", "resetNotPrime", "capturePrime",
                  "exitMachine">>

\* PrimeMachine's constructor: super({ counter: 2, current: 3, primes: [2] })
PrimeSeed == [counter |-> 2, current |-> 3, primes |-> <<2>>]

\* new PrimeMachine()
PrimeInit ==
    /\ _program = PrimeProgram
    /\ _inputSource = undefined
    /\ _inputMappings = << >>
    /\ _initialState = PrimeSeed
    /\ Constructed(_nextTick(constructed(_initialState)))
    /\ snapshot = undefined
    /\ pc = "idle"
    /\ idx = 0
    /\ fired = 0
    /\ currentTick = 0
    /\ forever = FALSE
    /\ inRun = FALSE
    /\ change = 0
    /\ result = undefined
    /\ hostOps = 0
    /\ log = <<>>
    /\ rewound = undefined
    /\ exitSet = undefined
    /\ runLog = <<>>
    /\ plain = TRUE
    /\ written = {}
    /\ lastOp = [op |-> "new"]
    /\ other = undefined
    /\ child = undefined

\* The steps one run() of the machine may take (it takes 144).
MaxPrimeSteps == 150

\* run(): `while (!this._exitState)` lets the loop go on: step() is called
PrimeStep ==
    /\ pc = "run"
    /\ _exitState = undefined
    /\ Len(runLog) < MaxPrimeSteps
    /\ EnterStep(M)
    /\ lastOp' = [op |-> "enter"]
    /\ UNCHANGED <<forever, inRun, runLog>>

\* The test calls run(); nothing else is called on the machine.
PrimeNext ==
    \/ Run
    \/ PrimeStep
    \/ EvalRule
    \/ StepCommit
    \/ RunReturn

\* run() is a blocking loop: a call that can take a step takes it.
PrimeSpec == PrimeInit /\ [][PrimeNext]_vars /\ WF_vars(PrimeNext)

\* ------------------------------------------------------------------- claims
\* history: no rule of the log fired
NoneFired(l) == \A i \in 1 .. Len(l) : ~l[i].fired

\* history: the value the last update of the log gives field f, else d
RECURSIVE LastWrite(_, _, _)
LastWrite(l, f, d) ==
    IF l = <<>> THEN d
    ELSE LET e == l[Len(l)]
         IN  IF e.newState # undefined /\ f \in DOMAIN e.newState
             THEN e.newState[f]
             ELSE LastWrite(SubSeq(l, 1, Len(l) - 1), f, d)

\* A step returned (to the host or to run()) in the way `how`.
StepReturned(how) == lastOp.op \in {"step", "run"} /\ lastOp.how = how

\* history: the values the updates of the log give field f
Writes(l, f) ==
    { l[i].newState[f] :
        i \in { j \in 1 .. Len(l) : l[j].newState # undefined /\ f \in DOMAIN l[j].newState } }

\* C1: every rule evaluated in a tick is handed the state that was committed
\* before the tick began, whatever updates earlier rules of the tick returned:
\* the current state does not change while the tick is evaluated, and a field
\* (not input-mapped) the tick wrote shows a written value once the tick is
\* committed.
C1_SnapshotFixedForTick ==
    /\ \A i \in 1 .. Len(log) : log[i].state = snapshot
    /\ (pc = "step" /\ rewound = undefined) => currentState(M) = snapshot
    /\ (StepReturned("commit") /\ rewound = undefined)
          => \A f \in DOMAIN snapshot \ InputKeys :
                Writes(log, f) # {} => currentState(M)[f] \in Writes(log, f)

\* C1 witness: a rule was evaluated after an earlier rule of the same tick
\* returned an update that changed the next state.
C1_Witness ==
    /\ pc = "step"
    /\ \E i, j \in 1 .. Len(log) :
          /\ i < j
          /\ log[i].newState # undefined
          /\ log[j].state = snapshot
    /\ _nextState # snapshot

\* C2: after the commit of a tick that no rewind interrupted, each field (not
\* input-mapped) that rules of the tick wrote holds the value returned by the
\* last of them, so the writes of every rule to the other fields are kept.
C2_LastWriterWins ==
    (StepReturned("commit") /\ rewound = undefined)
       => \A f \in DOMAIN snapshot \ InputKeys :
             Writes(log, f) # {} =>
                currentState(M)[f] = LastWrite(log, f, snapshot[f])

\* C2 witness: two rules of a committed tick returned different values for
\* `value`, and the earlier one also wrote `cycle`.
C2_Witness ==
    /\ StepReturned("commit")
    /\ rewound = undefined
    /\ \E i, j \in 1 .. Len(log) :
          /\ i < j
          /\ log[i].newState # undefined
          /\ log[j].newState # undefined
          /\ DOMAIN log[i].newState = {"value", "cycle"}
          /\ DOMAIN log[j].newState = {"value"}
          /\ log[i].newState.value # log[j].newState.value
          /\ currentState(M).value = log[j].newState.value
          /\ currentState(M).cycle = log[i].newState.cycle
          /\ currentState(M).cycle # snapshot.cycle

\* C3: while the limit was only assigned before the first step and no rewind
\* took effect, records holds the min(limit, tick) most recently committed
\* states, oldest first.
C3_EvictionKeepsNewest ==
    plain =>
       /\ Len(committed) = _tick
       /\ Len(_records) = Min(_maxHistory, _tick)
       /\ _records = SubSeq(committed, _tick - Min(_maxHistory, _tick) + 1, _tick)

\* C3 witness: more ticks than the limit were committed.
C3_Witness ==
    /\ plain
    /\ _maxHistory = 2
    /\ _tick = 4
    /\ committed[1] # committed[3]

\* C4 (as claimed): history.rewind(t) to an earlier tick t whose record is
\* retained leaves tick = t and the records up to that of tick t, the last one
\* overlaid with mutate.  (While no earlier rewind or limit took effect, the
\* record of tick t is records[t - (tick - records.length)].)
C4_RewindReachesTick ==
    (/\ lastOp.op = "rewind"
     /\ lastOp.plain
     /\ lastOp.t < lastOp.tick
     /\ lastOp.t > lastOp.tick - Len(lastOp.records))
       => LET at == lastOp.t - (lastOp.tick - Len(lastOp.records))
              old == lastOp.records[at]
              now == IF lastOp.mutate # undefined
                     THEN ObjectAssign(old, lastOp.mutate) ELSE old
          IN  /\ _tick = lastOp.t
              /\ currentState(M) = now
              /\ _records = SubSeq(lastOp.records, 1, at - 1) \o <<now>>

\* C5: once a rewind called by an action took effect, no later rule of the
\* program is evaluated in that step.
C5_NoRuleAfterRewind ==
    rewound # undefined =>
       \A i \in 1 .. Len(log) : log[i].rule <= rewound.rule

\* C5 witness: the step returned after a rule that is not the last one rewound.
C5_Witness ==
    /\ lastOp.op = "step"
    /\ rewound # undefined
    /\ rewound.rule < Len(_program)
    /\ _exitState = undefined

\* C6 (as claimed): when a step in which an action rewound (and no action
\* called exit()) returns, the tick and the records are those the rewind left.
C6_NoAdvanceAfterRewind ==
    (/\ lastOp.op \in {"step", "run"}
     /\ lastOp.how # "exited"
     /\ rewound # undefined
     /\ exitSet = undefined)
       => /\ _tick = rewound.tick
          /\ _records = rewound.records

C9_ForeverRunsUntilExit ==
    (lastOp.op = "run" /\ forever) => exitCalled

\* C10: the exit state stored by exit() in a tick is the state the tick
\* started from, without the updates of the tick, overlaid with the argument
\* of exit() if there is one; it is the exit state when the step returns and
\* the value run() returns.
C10_ExitStateIsSnapshot ==
    exitSet # undefined =>
       /\ exitSet.state = IF exitSet.arg = undefined
                          THEN snapshot
                          ELSE ObjectAssign(snapshot, exitSet.arg)
       /\ pc # "step" => _exitState = exitSet.state
       /\ lastOp.op = "run" => result = exitSet.state

\* C10 witness: run() returned after exit() was called without an argument in
\* a tick whose updates were committed.
C10_Witness ==
    /\ lastOp.op = "run"
    /\ exitSet # undefined
    /\ exitSet.arg = undefined
    /\ result = snapshot
    /\ currentState(M) # snapshot

\* C11 (as claimed): once a call of exit() stored the exit state, a later call
\* of exit() leaves it as it is.
C11_ExitIsSticky ==
    exitSet # undefined => _exitState = exitSet.first

\* C12 (as claimed): reset(s) clears the exit state and leaves tick 1 and the
\* single record s, as in a machine freshly constructed with the seed s.
C12_ResetRestoresOrigin ==
    lastOp.op = "reset"
       => /\ _exitState = undefined
          /\ _tick = 1
          /\ _records = <<lastOp.state>>
          /\ currentState(M) = lastOp.state
          /\ _nextState = lastOp.state

\* C13 (as claimed): history.clear() on a machine with unbounded limit, no
\* rewind having taken effect before, leaves tick 1 and the seed as the only
\* record.
C13_ClearLeavesSeed ==
    (lastOp.op = "clear" /\ lastOp.plain /\ _maxHistory = Infinity)
       => /\ _tick = 1
          /\ _records = <<_initialState>>

\* C14: a clear() that directly follows a clear() changes neither the tick nor
\* the records (so not the current state) nor the next state.
C14_ClearIdempotent ==
    (lastOp.op = "clear" /\ lastOp.again)
       => /\ _tick = lastOp.tick
          /\ _records = lastOp.records
          /\ _nextState = lastOp.nextState

\* C14 witness: clear() was called twice in a row, and the first call
\* discarded records of a machine that had committed ticks.
C14_Witness ==
    /\ lastOp.op = "clear"
    /\ lastOp.again
    /\ lastOp.first
    /\ _tick = 1

\* C15 (as claimed): history.rewind(t) to a tick t whose record was evicted
\* (the oldest retained record is the one of tick tick - records.length + 1),
\* with records of several ticks retained, leaves the oldest retained record,
\* overlaid with mutate, as the only record.
C15_RewindClampsToOldest ==
    (/\ lastOp.op = "rewind"
     /\ lastOp.plain
     /\ Len(lastOp.records) >= 2
     /\ lastOp.t <= lastOp.tick - Len(lastOp.records))
       => LET old == lastOp.records[1]
              now == IF lastOp.mutate # undefined
                     THEN ObjectAssign(old, lastOp.mutate) ELSE old
          IN  /\ currentState(M) = now
              /\ _records = <<now>>

\* C16 (as claimed): assigning history.limit = L with 1 <= L < records.length
\* leaves the L most recent records in their order, so the current state is
\* the one before the assignment.
C16_LimitKeepsNewest ==
    (/\ lastOp.op = "limit"
     /\ 1 <= lastOp.limit
     /\ lastOp.limit < Len(lastOp.records))
       => LET len == Len(lastOp.records)
          IN  /\ _records = SubSeq(lastOp.records, len - lastOp.limit + 1, len)
              /\ currentState(M) = lastOp.records[len]

\* C17: assigning history.limit a value below 1 leaves what assigning 1
\* leaves: limit reads 1 and one record is kept; and while limit reads 1,
\* whatever steps follow, records holds one record.
C17_LimitBelowOneIsOne ==
    /\ (lastOp.op = "limit" /\ lastOp.limit < 1)
          => LET before == [M EXCEPT !.records = lastOp.records,
                                     !.maxHistory = lastOp.maxHistory]
             IN  /\ _maxHistory = 1
                 /\ Len(_records) = 1
                 /\ _records = setLimit(before, 1).records
    /\ _maxHistory >= 1
    /\ _maxHistory = 1 => Len(_records) = 1

\* C17 witness: limit was assigned 0 while several records were retained.
C17_Witness ==
    /\ lastOp.op = "limit"
    /\ lastOp.limit = 0
    /\ Len(lastOp.records) >= 2
    /\ _maxHistory = 1

\* C18 (as claimed): within a tick the rules are evaluated by descending
\* priority, and rules of equal priority in the order of their registration
\* (the order of _program).
C18_PriorityOrder ==
    \A i, j \in 1 .. Len(log) :
       i < j =>
          \/ priority(_program[log[i].rule]) > priority(_program[log[j].rule])
          \/ /\ priority(_program[log[i].rule]) = priority(_program[log[j].rule])
             /\ log[i].rule < log[j].rule

\* history: the log entries whose update names an input-mapped key
InputWrites(l) ==
    { i \in 1 .. Len(l) :
        l[i].newState # undefined /\ DOMAIN l[i].newState \cap InputKeys # {} }

\* history: the values the actions of the program return for field k
Returned(k) ==
    { newState(_program[i], _initialState, M)[k] :
        i \in { j \in 1 .. Len(_program) :
                  /\ newState(_program[j], _initialState, M) # undefined
                  /\ k \in DOMAIN newState(_program[j], _initialState, M) } }

\* C19: an input-mapped field of a record never holds the value returned for
\* it by a rule action; and when a committed tick had an update naming an
\* input-mapped key, the other keys of that update were applied as for any
\* update.
C19_InputWritesDropped ==
    /\ \A i \in 1 .. Len(_records) :
          \A k \in InputKeys \cap DOMAIN _records[i] : _records[i][k] \notin Returned(k)
    /\ (StepReturned("commit") /\ rewound = undefined)
          => \A i \in InputWrites(log) :
                \A f \in DOMAIN log[i].newState \ InputKeys :
                   currentState(M)[f] = LastWrite(log, f, snapshot[f])

\* C19 witness: a tick after the first one was committed in which an action
\* returned a value for the input-mapped field together with a new `cycle`.
C19_Witness ==
    /\ StepReturned("commit")
    /\ rewound = undefined
    /\ _tick >= 3
    /\ InputWrites(log) # {}
    /\ snapshot.cycle # MaxCycle
    /\ currentState(M).cycle = MaxCycle
    /\ currentState(M).externalCounter \in InputValues

\* C20 (as claimed): right after a history.rewind(t, mutate) that found its
\* target, the current state holds mutate[k] in every key k of mutate, also
\* in a key that is input-mapped.
C20_MutateAppliesAll ==
    (/\ lastOp.op = "rewind"
     /\ lastOp.found
     /\ lastOp.mutate # undefined)
       => \A k \in DOMAIN lastOp.mutate : currentState(M)[k] = lastOp.mutate[k]

\* The keys of the state whose input mapping has the policy p.
KeysOf(p) ==
    { _inputMappings[i].key : i \in { j \in 1 .. Len(_inputMappings) :
                                        _inputMappings[j].policy = p } }

\* C21 (as claimed): while steps follow one another, the state the rules of a
\* tick evaluate holds, in a field mapped with the policy `always`, the value
\* polled last, i.e. polled after the previous commit.
C21_AlwaysSeesLatestPoll ==
    (pc = "step" /\ plain)
       => \A k \in KeysOf("always") : snapshot[k] = _previousInputs[k]

\* C21 (amended): an `always` input is polled once per tick, right after the
\* commit, into the next state.  The record of tick 2 is patched with that
\* value; from tick 3 on the record a step commits holds the value polled
\* before that step, so the rules see a polled value one step after the poll.
C21_AlwaysLagsOnePoll ==
    /\ (pc = "step" /\ plain)
          => \A k \in KeysOf("always") : _nextState[k] = _previousInputs[k]
    /\ (StepReturned("commit") /\ plain)
          => \A k \in KeysOf("always") :
                currentState(M)[k] = IF _tick <= 2 THEN _previousInputs[k]
                                     ELSE lastOp.inputs[k]

\* C21 witness: a step committed tick 3 or a later one after the source of an
\* `always` input changed, and the record it committed holds the value polled
\* before the step, not the one polled after the commit.
C21_Witness ==
    /\ StepReturned("commit")
    /\ plain
    /\ _tick >= 3
    /\ \E k \in KeysOf("always") :
          /\ currentState(M)[k] = lastOp.inputs[k]
          /\ currentState(M)[k] # _previousInputs[k]

\* C22 (as claimed): while steps follow one another (no rewind), every record
\* holds, in a field mapped with the policy `once`, the value polled at
\* construction, whatever values the source takes later.
C22_OnceKeepsStartupValue ==
    plain =>
       \A k \in KeysOf("once") :
          \A i \in 1 .. Len(_records) : _records[i][k] = committed[1][k]

\* C23 (as claimed): when a step commits a tick (no rewind having taken
\* effect), an input mapped with a policy callback is polled if the callback
\* returns true for the new tick, and otherwise keeps the value polled before.
C23_PolledWhenPredicateHolds ==
    (StepReturned("commit") /\ plain)
       => \A i \in 1 .. Len(_inputMappings) :
             _inputMappings[i].policy \in PolicyCallbacks
                => LET k == _inputMappings[i].key
                   IN  IF policy(_inputMappings[i].policy, currentState(M), M)
                       THEN _previousInputs[k] = _inputSource[_inputMappings[i].propertyKey]
                       ELSE _previousInputs[k] = lastOp.inputs[k]

\* history: the tick the log entry e was evaluated in, as a machine
AtTick(e) == [M EXCEPT !.tick = e.tick]

\* C24: a rule fires in a tick if and only if its @when condition holds on the
\* state the tick started from, its .unless inhibitor does not hold, and the
\* activation condition of no rule it is .inhibitedBy holds; the step
\* returns the number of rules that fired; so a rule and a rule that inhibits
\* it never both fire in the same tick.
C24_InhibitorsKeepFromFiring ==
    /\ rewound = undefined =>
          \A i \in 1 .. Len(log) :
             LET r == _program[log[i].rule]
             IN  log[i].fired <=>
                    /\ when(r, snapshot, AtTick(log[i]))
                    /\ ~unless(r, snapshot, AtTick(log[i]))
                    /\ \A q \in inhibitedBy(r) :
                          ~(when(q, snapshot, AtTick(log[i]))
                            /\ ~unless(q, snapshot, AtTick(log[i])))
    /\ \A i, j \in 1 .. Len(log) :
          _program[log[j].rule] \in inhibitedBy(_program[log[i].rule])
             => ~(log[i].fired /\ log[j].fired)
    /\ (StepReturned("commit") /\ rewound = undefined)
          => change = Cardinality({ i \in 1 .. Len(log) : log[i].fired })

\* C24 witness: in a committed tick the rule inhibited by another one was
\* evaluated with its @when condition true and did not fire, the inhibiting
\* rule fired, and the rule with an .unless inhibitor fired because its
\* inhibitor did not hold.
C24_Witness ==
    /\ StepReturned("commit")
    /\ \E i, j \in 1 .. Len(log) :
          /\ _program[log[j].rule] \in inhibitedBy(_program[log[i].rule])
          /\ when(_program[log[i].rule], snapshot, AtTick(log[i]))
          /\ ~log[i].fired
          /\ log[j].fired
    /\ \E i \in 1 .. Len(log) :
          /\ _program[log[i].rule] = "incrementUnless"
          /\ ~unless(_program[log[i].rule], snapshot, AtTick(log[i]))
          /\ log[i].fired

\* history: the log entries of rules that fired
Firings(l) == { i \in 1 .. Len(l) : l[i].fired }

\* C25: a step that no rewind interrupted returns the number of rules that
\* fired in the tick, those whose action returned no update included; so a
\* finite run() does not return after a step in which a rule fired, even if
\* no action of the step returned an update.
C25_FiredCountsEveryFiring ==
    /\ (lastOp.op \in {"step", "run"} /\ lastOp.how = "commit" /\ rewound = undefined)
          => change = Cardinality(Firings(log))
    /\ (lastOp.op = "run" /\ lastOp.how = "commit" /\ ~forever
            /\ rewound = undefined /\ exitSet = undefined)
          => Firings(log) = {}

\* C25 witness: a finite run() goes on after a step that returned 1 because
\* one rule fired, whose action returned no update.
C25_Witness ==
    /\ pc = "run"
    /\ ~forever
    /\ lastOp.op = "step"
    /\ lastOp.how = "commit"
    /\ change = 1
    /\ Firings(log) # {}
    /\ \A i \in Firings(log) : log[i].newState = undefined
    /\ _exitState = undefined

\* C26: a field that is not input-mapped and that was named neither by the
\* update of a firing action nor by the mutate argument of a rewind or reset
\* holds its seed value in the current state and in every retained record and
\* in the next state, whatever steps, rewinds, clears and limit assignments
\* happened.
C26_UnwrittenFieldKeepsSeed ==
    \A f \in DOMAIN _initialState \ (written \cup InputKeys) :
       /\ f \in DOMAIN currentState(M)
       /\ currentState(M)[f] = _initialState[f]
       /\ \A i \in 1 .. Len(_records) :
             f \in DOMAIN _records[i] /\ _records[i][f] = _initialState[f]
       /\ f \in DOMAIN _nextState /\ _nextState[f] = _initialState[f]

\* C26 witness: ticks were committed in which `value` was written, then a
\* rewind without mutate and a limit assignment took effect, and `cycle`,
\* which nothing named, holds its seed value.
C26_Witness ==
    /\ "value" \in written
    /\ "cycle" \notin written
    /\ ~plain
    /\ hostOps >= 2
    /\ lastOp.op = "limit"
    /\ Len(lastOp.records) > Len(_records)
    /\ currentState(M).value # _initialState.value
    /\ currentState(M).cycle = _initialState.cycle

\* A machine that holds only the record s at the tick t (as with limit 1),
\* not exited.
Only(s, t) ==
    [records |-> <<s>>, tick |-> t, nextState |-> s, maxHistory |-> 1,
     exitState |-> undefined, exitRef |-> 0, exitCalled |-> FALSE,
     previousInputs |-> Empty]

\* The rules whose action calls rewind or clear: what they do depends on the
\* retained records, not only on the state and the tick.
Rewinders == {"rewindWhenDone", "rewindAtTick", "exitAndClear", "rewindAndCount",
              "rewindAtStart"}

\* C27 (as claimed): in a machine without input source whose rules depend
\* only on the state and the tick, the tick, the current state and the value
\* returned by a step of a machine that has not exited are those of the step
\* of any machine with the same current state and tick, e.g. of the machine
\* that retains only that state.
C27_StepDependsOnStateAndTick ==
    (/\ lastOp.op \in {"step", "run"}
     /\ lastOp.how \in {"commit", "abort"}
     /\ _inputSource = undefined
     /\ \A i \in 1 .. Len(_program) : _program[i] \notin Rewinders
     /\ log # <<>>)
       => LET alone == step(_program, Only(snapshot, log[1].tick))
          IN  /\ _tick = alone.machine.tick
              /\ currentState(M) = currentState(alone.machine)
              /\ change = alone.fired

\* history: this transition is a rewind, a clear or a reset, called by the
\* host or by the action of the rule being evaluated
Rewinds ==
    \/ lastOp'.op \in {"rewind", "clear", "reset"}
    \/ lastOp'.op = "rule" /\ rewound' # undefined /\ rewound'.rule = idx

\* history: the transitions of the tick counter
TickMoves ==
    /\ (/\ pc = "step"
        /\ lastOp'.op \in {"step", "run"}
        /\ lastOp'.how = "commit"
        /\ rewound = undefined) => _tick = currentTick /\ _tick' = _tick + 1
    /\ _tick' < _tick => Rewinds
    /\ lastOp'.op = "limit" => _tick' = _tick

\* C28: history.tick is 1 after construction and during the first pass; in a
\* history without rewinds the n-th pass observes tick n; every step() that
\* completes without a rewind adds exactly 1 to the tick; no transition other
\* than a rewind, a clear or a reset lowers the tick; assigning limit leaves
\* the tick as it was.
C28_TickCounts ==
    /\ [](/\ lastOp.op = "new" => _tick = 1
          /\ pc = "step" /\ plain => _tick = currentTick /\ _tick = Len(committed))
    /\ [][TickMoves]_vars

\* C28 witness: the limit was assigned after two completed passes of a
\* history without rewinds, at tick 3.
C28_Witness ==
    /\ lastOp.op = "limit"
    /\ lastOp.tick = 3
    /\ _tick = 3
    /\ _maxHistory = 1
    /\ Len(_records) = 1

\* history: this transition is the return of a step() that commits and
\* none of whose rules called rewind, clear or reset
Commits ==
    /\ pc = "step"
    /\ lastOp'.op \in {"step", "run"}
    /\ lastOp'.how = "commit"
    /\ rewound = undefined

RecordMoves ==
    Commits =>
       /\ Len(_records') = Min(_maxHistory, Len(_records) + 1)
       /\ _inputSource = undefined => _records'[Len(_records')] = _nextState

ChildOps == {"child step", "child rewind"}

\* history: what a transition leaves of the two parents and of the child
ParentsKept ==
    /\ lastOp'.op \in ChildOps \cup {"recombine"} =>
          /\ M' = M
          /\ _program' = _program
          /\ _initialState' = _initialState
          /\ other' = other
    /\ lastOp'.op \notin ChildOps \cup {"recombine"} => child' = child
    /\ lastOp'.op = "other step" => M' = M /\ _program' = _program

\* C30: recombine leaves the tick, the records (with them the current state),
\* the exit state and the rule table of both parents as they were; no step
\* or rewind of the machine it returns, and no exit() its rules call, changes
\* a parent; no step, rewind or exit of a parent changes the returned machine.
C30_RecombineLeavesParents == [][ParentsKept]_vars

\* C30 witness: after the recombination the child stepped twice and exited,
\* then the other parent and this parent stepped; this parent has not exited
\* and is in another state than the child.
C30_Witness ==
    /\ child # undefined
    /\ StepReturned("commit")
    /\ hostOps = 0
    /\ _tick = 2
    /\ _exitState = undefined
    /\ other.machine.tick = 2
    /\ child.machine.tick = 3
    /\ child.machine.exitState # undefined
    /\ currentState(child.machine) # currentState(M)

\* The positions of the rules of a program whose condition throws.
Unresolved(prog) == { i \in 1 .. Len(prog) : condThrows(prog[i]) }

Rewound(l) == { i \in 1 .. Len(l) : l[i].rewound }

\* history: the first run(true) of the test machine returned
RewindTestRan == lastOp.op = "run" /\ pc = "idle" /\ forever /\ runLog # <<>>

PrimeRan == lastOp.op = "run" /\ pc = "idle" /\ _program = PrimeProgram

\* C33: the prime machine seeded {counter: 2, current: 3, primes: [2]}
\* terminates under run(), and the state run() returns has
\* primes = [2, 3, 5, 7, 11, 13, 17, 19, 23, 29]; while the machine has not
\* exited it holds at most ten primes.
C33_PrimeMachineTerminates ==
    /\ [](PrimeRan => result.primes = <<2, 3, 5, 7, 11, 13, 17, 19, 23, 29>>)
    /\ [](_exitState = undefined => Len(_nextState.primes) <= PrimeCount)
    /\ (lastOp.op = "call run") ~> PrimeRan

C33_Witness ==
    /\ PrimeRan
    /\ ~forever
    /\ Len(runLog) = 144
    /\ result = [counter |-> 0, current |-> 0,
                 primes |-> <<2, 3, 5, 7, 11, 13, 17, 19, 23, 29>>]

\* history: the update the last rule evaluated in this step returned
OwnUpdate == IF log[Len(log)].newState = undefined THEN Empty
             ELSE log[Len(log)].newState

\* history: the state the rewind of this step went back to
RewoundState == rewound.records[Len(rewound.records)]

\* history: a rule evaluated in this step before the one that rewound
\* returned an update that differs from the rewound-to state
EarlierWrite ==
    \E i \in 1 .. Len(log) - 1 :
        /\ log[i].newState # undefined
        /\ \E f \in DOMAIN log[i].newState \ DOMAIN OwnUpdate :
              log[i].newState[f] # RewoundState[f]

\* C34: once an action's rewind took effect, the next-state buffer is a copy
\* of the rewound-to state, with nothing of the updates that the rules
\* evaluated earlier in that tick merged into it; only the update the
\* rewinding action itself returns is merged after it. A step that is left
\* by the abort commits nothing, and a step that commits after the rewind
\* commits that buffer.
C34_RewindRebuildsBuffer ==
    /\ (lastOp.op = "rule" /\ rewound # undefined /\ rewound.rule = idx - 1)
          => /\ currentState(M) = RewoundState
             /\ _nextState = ObjectAssign(RewoundState, OwnUpdate)
    /\ (lastOp.op \in {"step", "run"} /\ "how" \in DOMAIN lastOp /\ rewound # undefined)
          => /\ lastOp.how = "abort"
                  => /\ _records = rewound.records
                     /\ _nextState = ObjectAssign(RewoundState, OwnUpdate)
             /\ lastOp.how = "commit"
                  => currentState(M) = ObjectAssign(RewoundState, OwnUpdate)

C34_Witness ==
    /\ lastOp.op = "step"
    /\ lastOp.how = "abort"
    /\ rewound # undefined
    /\ EarlierWrite
    /\ _nextState = RewoundState

\* C35 (as claimed): once an action called exit() in a step, no further rule
\* is evaluated in that step, and the step commits: when it returns the tick
\* is one higher than when it was entered.
C35_ExitEndsTickCommitted ==
    [][(pc = "step" /\ exitSet # undefined)
          => /\ lastOp'.op \in {"step", "run"}
             /\ lastOp'.how = "commit"
             /\ _tick' = currentTick + 1]_vars

\* C35 (amended): once an action called exit() in a step, no further rule is
\* evaluated in that step, and the step commits: _nextTick runs once,
\* appending the next-state buffer; when no action of the step rewound, the
\* tick is one higher when the step returns than when it was entered.
C35_ExitEndsTickCommittedUnlessRewound ==
    [][(pc = "step" /\ exitSet # undefined)
          => /\ lastOp'.op \in {"step", "run"}
             /\ lastOp'.how = "commit"
             /\ _tick' = _tick + 1
             /\ _records'[Len(_records')] = _nextState
             /\ rewound = undefined => _tick' = currentTick + 1]_vars

\* C35 witness: a step returned in which a rule that is not the last one
\* called exit(); the rules after it were not evaluated.
C35_Witness ==
    /\ lastOp.op = "step"
    /\ lastOp.how = "commit"
    /\ exitSet # undefined
    /\ rewound = undefined
    /\ Len(log) < Len(_program)
    /\ _tick > 2

\* history: the rewind (or clear) call among the calls cs of an action
RewindCall(cs) ==
    LET i == CHOOSE i \in 1 .. Len(cs) : cs[i].op \in {"rewind", "clear"}
    IN  IF cs[i].op = "clear" THEN [t |-> 1, mutate |-> undefined]
        ELSE [t |-> cs[i].t, mutate |-> cs[i].arg]

\* history: the fields a mutate argument names
MutateKeys(mutate) == IF mutate = undefined THEN {} ELSE DOMAIN mutate

\* history: rewind(t) called on this machine leaves the records new: the
\* records kept have the field values they had, but for the fields F of the
\* rewound-to record.  (A rewind that discards every record pushes a new
\* record, a copy of the initial state.)
KeptByRewind(new, t, F) ==
    IF ~rewindFound(M, t) THEN new = _records
    ELSE IF rewindTarget(M, t) = 0 THEN Len(new) = 1
    ELSE /\ Len(new) = rewindTarget(M, t)
         /\ \A i \in 1 .. Len(new) - 1 : new[i] = _records[i]
         /\ \A f \in DOMAIN _records[Len(new)] \ F :
               new[Len(new)][f] = _records[Len(new)][f]
         /\ DOMAIN new[Len(new)] \subseteq DOMAIN _records[Len(new)] \cup F

\* history: the records new are the records old without some of the records
\* after the first
KeptByLimit(old, new) == \E d \in 0 .. Len(old) : new = Splice(old, 1, d)

\* history: the records new are the newest of the records old and one more
KeptByCommit(old, new) ==
    \E k \in 0 .. Len(old) :
        SubSeq(new, 1, Len(new) - 1) = SubSeq(old, k + 1, Len(old))

\* history: the records after this transition hold the records that are kept
\* with their field values, where a rewind with the argument mutate may
\* change the fields Changed(mutate) of the rewound-to record
RecordsKept(Changed(_)) ==
    /\ lastOp'.op \in {"enter", "call run", "update"} => _records' = _records
    /\ lastOp'.op = "rule" =>
          LET cs == calls(_program[idx], currentState(M), M)
          IN  IF /\ log'[Len(log')].fired
                 /\ \E i \in 1 .. Len(cs) : cs[i].op \in {"rewind", "clear"}
              THEN KeptByRewind(_records', RewindCall(cs).t,
                                Changed(RewindCall(cs).mutate))
              ELSE _records' = _records
    /\ (lastOp'.op \in {"step", "run"} /\ pc = "step") =>
          IF lastOp'.how = "commit" THEN KeptByCommit(_records, _records')
          ELSE _records' = _records
    /\ (lastOp'.op = "run" /\ pc = "run") => _records' = _records
    /\ lastOp'.op = "limit" => KeptByLimit(_records, _records')
    /\ lastOp'.op = "rewind" =>
          KeptByRewind(_records', lastOp'.t, Changed(lastOp'.mutate))
    /\ lastOp'.op = "clear" => KeptByRewind(_records', 1, Changed(undefined))
    /\ lastOp'.op = "reset" =>
          KeptByRewind(_records', Infinity, Changed(lastOp'.state))

\* C36 (as claimed): a committed record keeps its field values as long as it
\* is retained: steps, limit assignments, input polling and rewinds without
\* mutate leave the retained records as they are, and a rewind with mutate
\* changes only the fields of mutate in the rewound-to record.
C36_RecordsImmutable == [][RecordsKept(MutateKeys)]_vars

\* history: the fields a rewind with the argument mutate may change in the
\* rewound-to record: those of mutate and, in a machine with an input source,
\* the input-mapped ones
RewindKeys(mutate) ==
    MutateKeys(mutate) \cup (IF _inputSource # undefined THEN InputKeys ELSE {})

\* C36 (amended): a committed record keeps its field values as long as it is
\* retained, but for the rewound-to record of a rewind, in which the fields of
\* mutate and, in a machine with an input source, the input-mapped fields
\* may change.
C36_RecordsImmutableButInputs == [][RecordsKept(RewindKeys)]_vars

\* C36 witness: the host's rewind without mutate, on a machine with an input
\* source, went back to a record that was not the newest and kept the
\* records before it; an input-mapped field of the rewound-to record changed.
C36_Witness ==
    /\ lastOp.op = "rewind"
    /\ lastOp.found
    /\ lastOp.mutate = undefined
    /\ _inputSource # undefined
    /\ Len(_records) >= 2
    /\ Len(_records) < Len(lastOp.records)
    /\ _records[Len(_records)].value = lastOp.records[Len(_records)].value
    /\ _records[Len(_records)].externalCounter
          # lastOp.records[Len(_records)].externalCounter

\* C37: records is never empty, so history.currentState is a record in every
\* state, whatever steps, rewinds, clears, resets and limit assignments
\* (limits below 1 and rewinds beyond the retained records among them) came
\* before.
C37_RecordsNeverEmpty ==
    /\ Len(_records) >= 1
    /\ currentState(M) # undefined
    /\ DOMAIN _initialState \subseteq DOMAIN currentState(M)

\* C37 witness: with the limit lowered to 1 by the assignment of 0, a rewind
\* by the host discarded every retained record and left a copy of the
\* initial state as the only one.
C37_Witness ==
    /\ lastOp.op = "rewind"
    /\ lastOp.found
    /\ lastOp.tick > 1
    /\ lastOp.mutate = undefined
    /\ _maxHistory = 1
    /\ hostOps = 2
    /\ _inputSource = undefined
    /\ lastOp.records # <<_initialState>>
    /\ _records = <<_initialState>>

\* history: exit() was called in an earlier step and the exit state it stored
\* is set
Exited == exitCalled /\ _exitState # undefined /\ exitSet = undefined

\* C38 (as claimed): once exit() was called, only reset() changes the exit
\* state; a step() the host calls afterwards leaves it as it is.
C38_ExitStateKeptUntilReset ==
    [][(Exited /\ lastOp'.op # "reset") => _exitState' = _exitState]_vars

\* C39: a rewind that finds no record at its target changes nothing: the
\* tick, the records, the next-state buffer and the exit state are as before,
\* mutate is not applied, and when an action made the call the step goes on
\* with the next rule.
C39_RewindWithoutTargetChangesNothing ==
    /\ [][(lastOp'.op = "rewind" /\ ~lastOp'.found)
             => UNCHANGED <<_records, _tick, _nextState, _exitState, _maxHistory,
                            _previousInputs>>]_vars
    /\ [][(/\ lastOp'.op = "rule"
            /\ log'[Len(log')].fired
            /\ LET cs == calls(_program[idx], currentState(M), M)
               IN  /\ \E i \in 1 .. Len(cs) : cs[i].op \in {"rewind", "clear"}
                   /\ ~rewindFound(M, RewindCall(cs).t))
             => /\ UNCHANGED <<_records, _tick>>
                /\ rewound' = rewound
                /\ _nextState'
                     = ObjectAssign(_nextState,
                                    IF log'[Len(log')].newState = undefined THEN Empty
                                    ELSE log'[Len(log')].newState)
                /\ pc' = "step"
                /\ ~stepAborts(M, currentTick)']_vars

\* C39 witness: an action called rewind with a mutate argument at tick 1, the
\* call found no record, and the rule after it was evaluated in the same step.
C39_Witness ==
    /\ pc = "step"
    /\ _tick = 1
    /\ Len(log) >= 2
    /\ log[Len(log) - 1].fired
    /\ _program[log[Len(log) - 1].rule] = "rewindAtStart"
    /\ rewound = undefined
    /\ _records = <<_initialState>>

\* C40 (as claimed): the update returned by the action that rewound is not
\* carried into the rewound timeline: when the step it aborted returns, the
\* next-state buffer, to which the next tick adds the updates of its firing
\* rules to form the first record committed after the rewind, is the
\* rewound-to state.
C40_OwnUpdateNotCarried ==
    (/\ lastOp.op \in {"step", "run"}
     /\ "how" \in DOMAIN lastOp
     /\ lastOp.how = "abort"
     /\ rewound # undefined)
       => _nextState = currentState(M)
====
